---- MODULE Spec2Model ----
(***************************************************************************)
(* Model of the plant aggregation pipeline:                                *)
(*   plants_database.py        the SQLite Store (PlantsDatabase)           *)
(*   plants_data_collector.py  the Merge Engine (PlantDataCollector)       *)
(*   plants_integration.py     the batch run (PlantsIntegrationSystem)     *)
(*                                                                         *)
(* Python dicts are functions whose DOMAIN is the set of keys present.     *)
(* Python str values are TLA+ strings; a text that the code takes apart    *)
(* (the description, the GROUP_CONCAT column) is a sequence of pieces.     *)
(* None / SQL NULL is the value None below.                                *)
(***************************************************************************)
EXTENDS Integers, Sequences, FiniteSets, TLC

VARIABLES
    db,         \* the committed database file: what every other connection reads
    lock,       \* the connection holding SQLite's RESERVED (writer) lock, or NoLock
    tx,         \* tx[w]: connection w's uncommitted view inside save_plant
    pc,         \* pc[w]: where writer w stands inside save_plant
    arg,        \* arg[w]: the plant_data dict passed to save_plant
    plant_id,   \* plant_id[w]: cursor.lastrowid of w's INSERT OR REPLACE
    idx,        \* idx[w]: position in the loop over plant_data['categories']
    calls,      \* number of save_plant calls started so far
    commits,    \* the plant_data of every committed save_plant, in commit order
    observed,   \* what the last reader call returned
    clock,      \* datetime.now()
    cpc,        \* collector: next step of collect_comprehensive_plant_data
    plant_name, \* collector: the identifier being aggregated
    combined_data, \* collector: the running combined_data dict
    fetched,    \* collector: what each source's fetch produced
    cache,      \* collector: self.cache
    collected,  \* collector: the last call that returned (identifier, time, all sources answered)
    plant_list, \* batch: the list handed to process_plant_list
    position,   \* batch: index of the plant_name being processed
    failing,    \* batch: the identifiers for which every source fetch fails
    stats,      \* batch: PlantsIntegrationSystem.stats
    bpc         \* batch: where process_plant_list stands

storeVars == <<db, lock, tx, pc, arg, plant_id, idx, calls, commits, observed>>
collectVars == <<cpc, plant_name, combined_data, fetched, cache, collected>>
batchVars == <<plant_list, position, failing, stats, bpc>>
vars == <<storeVars, clock, collectVars, batchVars>>

----------------------------------------------------------------------------
(* Bounds of the model *)

MaxSaves == 2       \* save_plant calls in one behaviour of Spec
MaxClock == 1       \* ticks of the wall clock
MaxBatch == 3       \* length of the plant_list of a batch run

----------------------------------------------------------------------------
(* Python / SQL values *)

None == "<None>"
NoLock == "<no connection>"
EmptyDict == <<>>
EmptyList == <<>>

Get(d, k, default) == IF k \in DOMAIN d THEN d[k] ELSE default

Put(d, k, v) == [x \in (DOMAIN d) \cup {k} |-> IF x = k THEN v ELSE d[x]]

Range(s) == {s[i] : i \in 1..Len(s)}

Min(a, b) == IF a < b THEN a ELSE b

\* All orders in which the rows of s can be delivered.
Orders(s) ==
    LET n == Len(s)
        P == {p \in [1..n -> 1..n] : \A i, j \in 1..n : i # j => p[i] # p[j]}
    IN  {[i \in 1..n |-> s[p[i]]] : p \in P}

----------------------------------------------------------------------------
(* Python str operations. A str is a TLA+ string; chars gives the characters *)
(* of the strs that the code or a claim takes apart.                          *)

chars(s) ==
    CASE s = "Rosa rugosa" -> <<"R", "o", "s", "a", " ", "r", "u", "g", "o", "s", "a">>
      [] s = "Xyz abcdef" -> <<"X", "y", "z", " ", "a", "b", "c", "d", "e", "f">>
      [] s = "Test Plant" -> <<"T", "e", "s", "t", " ", "P", "l", "a", "n", "t">>
      [] s = "Picea abies" -> <<"P", "i", "c", "e", "a", " ", "a", "b", "i", "e", "s">>
      [] s = "Rose" -> <<"R", "o", "s", "e">>
      [] s = "rose" -> <<"r", "o", "s", "e">>
      [] s = "ROSE" -> <<"R", "O", "S", "E">>
      [] s = "Rosier" -> <<"R", "o", "s", "i", "e", "r">>
      [] s = "Plante Test" -> <<"P", "l", "a", "n", "t", "e", " ", "T", "e", "s", "t">>
      [] s = " " -> <<" ">>
      [] s = "rosa" -> <<"r", "o", "s", "a">>
      [] s = "tulipa" -> <<"t", "u", "l", "i", "p", "a">>
      [] s = "lilium" -> <<"l", "i", "l", "i", "u", "m">>
      [] s = "iris" -> <<"i", "r", "i", "s">>
      [] s = "daisy" -> <<"d", "a", "i", "s", "y">>
      [] s = "quercus" -> <<"q", "u", "e", "r", "c", "u", "s">>
      [] s = "fagus" -> <<"f", "a", "g", "u", "s">>
      [] s = "acer" -> <<"a", "c", "e", "r">>
      [] s = "betula" -> <<"b", "e", "t", "u", "l", "a">>
      [] s = "pinus" -> <<"p", "i", "n", "u", "s">>
      [] s = "abies" -> <<"a", "b", "i", "e", "s">>
      [] s = "picea" -> <<"p", "i", "c", "e", "a">>
      [] s = "solanum" -> <<"s", "o", "l", "a", "n", "u", "m">>
      [] s = "lycopersicum" -> <<"l", "y", "c", "o", "p", "e", "r", "s", "i", "c", "u", "m">>
      [] s = "daucus" -> <<"d", "a", "u", "c", "u", "s">>
      [] s = "carota" -> <<"c", "a", "r", "o", "t", "a">>
      [] s = "mentha" -> <<"m", "e", "n", "t", "h", "a">>
      [] s = "rosmarinus" -> <<"r", "o", "s", "m", "a", "r", "i", "n", "u", "s">>
      [] s = "thymus" -> <<"t", "h", "y", "m", "u", "s">>
      [] s = "Tulipa gesneriana" -> <<"T", "u", "l", "i", "p", "a", " ", "g", "e", "s", "n", "e", "r", "i", "a", "n", "a">>
      [] s = "Tulipe dorée" -> <<"T", "u", "l", "i", "p", "e", " ", "d", "o", "r", "é", "e">>
      [] s = "ros" -> <<"r", "o", "s">>
      [] s = "ROS" -> <<"R", "O", "S">>
      [] s = "r_s" -> <<"r", "_", "s">>
      [] s = "Rosaceae" -> <<"R", "o", "s", "a", "c", "e", "a", "e">>
      [] s = "Testaceae" -> <<"T", "e", "s", "t", "a", "c", "e", "a", "e">>
      [] s = "fleurs" -> <<"f", "l", "e", "u", "r", "s">>
      [] s = "arbres" -> <<"a", "r", "b", "r", "e", "s">>
      [] s = "test" -> <<"t", "e", "s", "t">>
      [] s = "rosa rugosa" -> <<"r", "o", "s", "a", " ", "r", "u", "g", "o", "s", "a">>
      [] s = "ROSA RUGOSA" -> <<"R", "O", "S", "A", " ", "R", "U", "G", "O", "S", "A">>
      [] s = "Aceras anthropophorum" -> <<"A", "c", "e", "r", "a", "s", " ", "a", "n", "t", "h", "r", "o", "p", "o", "p", "h", "o", "r", "u", "m">>
      [] s = "" -> <<>>
      [] OTHER -> <<s>>

\* str.lower(), one character
lower_char(c) ==
    CASE c = "A" -> "a"
      [] c = "B" -> "b"
      [] c = "C" -> "c"
      [] c = "D" -> "d"
      [] c = "E" -> "e"
      [] c = "F" -> "f"
      [] c = "G" -> "g"
      [] c = "H" -> "h"
      [] c = "I" -> "i"
      [] c = "J" -> "j"
      [] c = "K" -> "k"
      [] c = "L" -> "l"
      [] c = "M" -> "m"
      [] c = "N" -> "n"
      [] c = "O" -> "o"
      [] c = "P" -> "p"
      [] c = "Q" -> "q"
      [] c = "R" -> "r"
      [] c = "S" -> "s"
      [] c = "T" -> "t"
      [] c = "U" -> "u"
      [] c = "V" -> "v"
      [] c = "W" -> "w"
      [] c = "X" -> "x"
      [] c = "Y" -> "y"
      [] c = "Z" -> "z"
      [] OTHER -> c

\* str.lower() on the characters of a str
lower(cs) == [i \in 1..Len(cs) |-> lower_char(cs[i])]

\* word in text, for strs: text has word as a substring
contains(text, word) ==
    \E i \in 0..(Len(text) - Len(word)) :
        \A k \in 1..Len(word) : text[i + k] = word[k]

\* name.strip() on the characters of a str: leading and trailing blanks go
RECURSIVE lstrip(_)
lstrip(cs) == IF cs # <<>> /\ Head(cs) = " " THEN lstrip(Tail(cs)) ELSE cs

RECURSIVE rstrip(_)
rstrip(cs) ==
    IF cs # <<>> /\ cs[Len(cs)] = " " THEN rstrip(SubSeq(cs, 1, Len(cs) - 1)) ELSE cs

strip(cs) == rstrip(lstrip(cs))

----------------------------------------------------------------------------
(* The plant_data dicts handed to save_plant *)

\* test_plants_system.py, test_database
TestPlant ==
    [scientific_name |-> "Test Plant",
     common_names |-> <<"Plante Test">>,
     family |-> "Testaceae",
     description |-> <<"U", "n", "e">>,
     categories |-> <<[category |-> "test", subcategory |-> "unit"]>>,
     care_instructions |-> [watering |-> "weekly"],
     weather_data |-> [temperature_min |-> 10, temperature_max |-> 30]]

\* A first version of "Rosa rugosa": two tags and a weather block.
RosaV1 ==
    [scientific_name |-> "Rosa rugosa",
     common_names |-> <<"Rose">>,
     family |-> "Rosaceae",
     genus |-> "Rosa",
     description |-> <<"r", "o", "s", "e">>,
     categories |-> <<[category |-> "fleurs", subcategory |-> "fleurs à bulbe"],
                      [category |-> "arbres", subcategory |-> "feuillus"]>>,
     care_instructions |-> [watering_frequency |-> "weekly"],
     sources |-> [trefle |-> [author |-> "USDA"]],
     image_urls |-> <<"http://img/rosa.jpg">>,
     weather_data |-> [temperature_min |-> 5, humidity_max |-> 70]]

\* A later version of "Rosa rugosa": the fleurs tag is gone, one tag is given
\* twice, and there is no weather block.
RosaV2 ==
    [scientific_name |-> "Rosa rugosa",
     common_names |-> <<"Rose", "Rosier">>,
     family |-> "Bogus",
     genus |-> "Rosa",
     description |-> <<"r", "o", "s", "e">>,
     categories |-> <<[category |-> "arbres", subcategory |-> "feuillus"],
                      [category |-> "arbres", subcategory |-> "feuillus"]>>,
     care_instructions |-> EmptyDict,
     sources |-> EmptyDict,
     image_urls |-> EmptyList]

\* A dict without 'scientific_name': the NOT NULL column rejects it.
NoName ==
    [common_names |-> EmptyList,
     description |-> EmptyList]

PlantInputs == {TestPlant, RosaV1, RosaV2, NoName}

Identifiers == {"Rosa rugosa", "Test Plant"}

Categories == {"fleurs", "arbres", "test"}

----------------------------------------------------------------------------
(* The schema, init_database *)

\* The columns of plant_weather_data besides plant_id.
WeatherColumns ==
    {"temperature_min", "temperature_max", "humidity_min", "humidity_max",
     "sunlight_hours_min", "sunlight_hours_max", "rainfall_min", "rainfall_max",
     "hardiness_zone_min", "hardiness_zone_max"}

\* The four tables right after CREATE TABLE IF NOT EXISTS on a new file.
\* seq is sqlite_sequence's entry for plants (id is AUTOINCREMENT).
init_database ==
    [plants |-> <<>>, plant_categories |-> <<>>, plant_weather_data |-> <<>>, seq |-> 0]

\* json.dumps: the column holds the text of the value, not the value.
json_dumps(v) == [json |-> v]

\* json.loads(row[i] or '...'): save_plant always writes a JSON text, so the
\* column is never NULL or empty and the default is never taken.
json_loads(text) == text.json

\* Python None where a dict is expected (get_plant's "not found").
NoneDict == [none |-> TRUE]

----------------------------------------------------------------------------
(* save_plant's three statements, as functions of the connection's view d *)

\* PRAGMA foreign_keys: sqlite3.connect leaves it at SQLite's default, off, and
\* no connection of plants_database.py turns it on.
foreign_keys == FALSE

\* ON DELETE CASCADE of plant_categories and plant_weather_data: acts only
\* while foreign_keys is on.
on_delete_cascade(d, gone) ==
    IF foreign_keys
    THEN [d EXCEPT
            !.plant_categories = SelectSeq(@, LAMBDA r : r.plant_id \notin gone),
            !.plant_weather_data = SelectSeq(@, LAMBDA r : r.plant_id \notin gone)]
    ELSE d

\* What rowid_for is not: the replaced row's id kept, as an UPDATE in place
\* would keep it.
rowid_kept(d, name) ==
    LET old == {d.plants[i].id : i \in {j \in 1..Len(d.plants) : d.plants[j].scientific_name = name}}
    IN  IF old = {} THEN d.seq + 1 ELSE CHOOSE i \in old : TRUE

\* id INTEGER PRIMARY KEY AUTOINCREMENT: a new row's id is one more than the
\* largest id the table ever held, also when the row replaces another.
rowid_for(d, name) == d.seq + 1

\* What replace_conflicts is not: the old row stays (a plain INSERT into a
\* table without the UNIQUE constraint).
replace_nothing(rows, name) == rows

\* INSERT OR REPLACE against scientific_name TEXT UNIQUE: the row holding the
\* same scientific_name is deleted before the new one is inserted.
replace_conflicts(rows, name) == SelectSeq(rows, LAMBDA r : r.scientific_name # name)

\* scientific_name TEXT ... NOT NULL: sqlite3.IntegrityError.
not_null_fails(plant_data) == Get(plant_data, "scientific_name", None) = None

\* INSERT OR REPLACE INTO plants (...) VALUES (...), lines 95-112.
insert_plant(d, plant_data, now) ==
    LET name == Get(plant_data, "scientific_name", None)
        id == rowid_for(d, name)
        gone == {d.plants[i].id : i \in {j \in 1..Len(d.plants) : d.plants[j].scientific_name = name}}
        row == [id |-> id,
                scientific_name |-> name,
                common_names |-> json_dumps(Get(plant_data, "common_names", EmptyList)),
                family |-> Get(plant_data, "family", None),
                genus |-> Get(plant_data, "genus", None),
                species |-> Get(plant_data, "species", None),
                description |-> Get(plant_data, "description", None),
                care_instructions |-> json_dumps(Get(plant_data, "care_instructions", EmptyDict)),
                climate_data |-> json_dumps(Get(plant_data, "climate_data", EmptyDict)),
                sources |-> json_dumps(Get(plant_data, "sources", EmptyDict)),
                image_urls |-> json_dumps(Get(plant_data, "image_urls", EmptyList)),
                last_updated |-> now,
                created_at |-> now]
    IN  on_delete_cascade(
            [d EXCEPT !.plants = Append(replace_conflicts(@, name), row),
                      !.seq = IF id > @ THEN id ELSE @],
            gone)

\* cursor.lastrowid after insert_plant
lastrowid(d, plant_data) == rowid_for(d, Get(plant_data, "scientific_name", None))

\* INSERT OR IGNORE INTO plant_categories, against UNIQUE(plant_id, category,
\* subcategory), lines 119-127. A NULL never equals a NULL, so a row with a
\* NULL column is never ignored.
insert_category(d, id, category_data) ==
    LET row == [plant_id |-> id,
                category |-> Get(category_data, "category", None),
                subcategory |-> Get(category_data, "subcategory", None)]
    IN  IF row \in Range(d.plant_categories) /\ None \notin {row.category, row.subcategory}
        THEN d
        ELSE [d EXCEPT !.plant_categories = Append(@, row)]

\* INSERT OR REPLACE INTO plant_weather_data, lines 132-150: the table has no
\* key, so the row is appended. A column whose key the dict lacks is NULL and
\* is left out of the row.
insert_weather(d, id, weather) ==
    LET row == [plant_id |-> id,
                columns |-> [c \in WeatherColumns \cap DOMAIN weather |-> weather[c]]]
    IN  [d EXCEPT !.plant_weather_data = Append(@, row)]

----------------------------------------------------------------------------
(* The SELECTs of get_plant and get_plants_by_category *)

\* pc.category || ':' || COALESCE(pc.subcategory, ''): a text of three pieces.
tag_text(r) ==
    <<r.category, ":">> \o (IF r.subcategory = None THEN <<>> ELSE <<r.subcategory>>)

\* GROUP_CONCAT over the texts, in the order given: joined by ','. No text at
\* all gives NULL, which row[13] treats like the empty text.
RECURSIVE group_concat(_)
group_concat(texts) ==
    IF texts = <<>> THEN <<>>
    ELSE IF Len(texts) = 1 THEN texts[1]
    ELSE texts[1] \o <<",">> \o group_concat(Tail(texts))

\* str.split(','), on a non-empty text.
RECURSIVE split(_, _)
split(text, piece) ==
    IF text = <<>> THEN <<piece>>
    ELSE IF Head(text) = "," THEN <<piece>> \o split(Tail(text), <<>>)
    ELSE split(Tail(text), Append(piece, Head(text)))

\* plants p LEFT JOIN plant_categories pc LEFT JOIN plant_weather_data pwd for
\* one row p: every pair of a matching pc and a matching pwd, a side without a
\* match being NULL (the empty sequence here).
joined(d, p) ==
    LET pcs == SelectSeq(d.plant_categories, LAMBDA r : r.plant_id = p.id)
        pwds == SelectSeq(d.plant_weather_data, LAMBDA r : r.plant_id = p.id)
        A == IF pcs = <<>> THEN <<(<<>>)>> ELSE [i \in 1..Len(pcs) |-> <<pcs[i]>>]
        B == IF pwds = <<>> THEN <<(<<>>)>> ELSE [i \in 1..Len(pwds) |-> <<pwds[i]>>]
    IN  [k \in 1..(Len(A) * Len(B)) |->
            [pc |-> A[((k - 1) \div Len(B)) + 1], pwd |-> B[((k - 1) % Len(B)) + 1]]]

\* GROUP BY p.id over the joined rows js: SQL fixes neither the order in which
\* GROUP_CONCAT meets the rows nor the row the bare pwd.* columns come from, so
\* this is the set of rows the query may deliver.
grouped(p, js) ==
    LET tagged(o) == SelectSeq(o, LAMBDA j : j.pc # <<>>)
        texts(o) == [i \in 1..Len(tagged(o)) |-> tag_text(tagged(o)[i].pc[1])]
    IN  {[p |-> p, categories |-> group_concat(texts(o)), pwd |-> o[k].pwd] :
            o \in Orders(js), k \in 1..Len(js)}

\* _row_to_dict, lines 216-233: the pwd.* columns behind row[13] are dropped.
_row_to_dict(row) ==
    [id |-> row.p.id,
     scientific_name |-> row.p.scientific_name,
     common_names |-> json_loads(row.p.common_names),
     family |-> row.p.family,
     genus |-> row.p.genus,
     species |-> row.p.species,
     description |-> row.p.description,
     care_instructions |-> json_loads(row.p.care_instructions),
     climate_data |-> json_loads(row.p.climate_data),
     sources |-> json_loads(row.p.sources),
     image_urls |-> json_loads(row.p.image_urls),
     last_updated |-> row.p.last_updated,
     created_at |-> row.p.created_at,
     categories |-> IF row.categories = <<>> THEN EmptyList ELSE split(row.categories, <<>>)]

\* The rows cursor.fetchone() may give get_plant: none (the empty set) or one
\* of the deliveries of the group of the row WHERE p.scientific_name = ?.
get_plant_rows(d, scientific_name) ==
    UNION {grouped(d.plants[i], joined(d, d.plants[i])) :
            i \in {j \in 1..Len(d.plants) : d.plants[j].scientific_name = scientific_name}}

\* get_plant, lines 155-173: the values the call may return.
get_plant(d, scientific_name) ==
    IF get_plant_rows(d, scientific_name) = {}
    THEN {NoneDict}
    ELSE {_row_to_dict(row) : row \in get_plant_rows(d, scientific_name)}

\* The default of get_plants_by_category's limit parameter.
DefaultCategoryLimit == 100

\* The same SELECT without its WHERE pc.category = ?: every tagged row, up to
\* the limit.
RECURSIVE by_category_rows_unfiltered(_, _, _, _)
by_category_rows_unfiltered(d, category, i, limit) ==
    IF i > Len(d.plants) \/ limit = 0 THEN {<<>>}
    ELSE
        LET p == d.plants[i]
            js == SelectSeq(joined(d, p), LAMBDA j : j.pc # <<>>)
        IN  IF js = <<>>
            THEN by_category_rows_unfiltered(d, category, i + 1, limit)
            ELSE {<<row>> \o rest :
                    row \in grouped(p, js),
                    rest \in by_category_rows_unfiltered(d, category, i + 1, limit - 1)}

\* The SELECT of get_plants_by_category: plants JOIN plant_categories WHERE
\* pc.category = ? GROUP BY p.id LIMIT ?. The groups come in id order; this is
\* the set of row lists cursor.fetchall() may give.
RECURSIVE by_category_rows(_, _, _, _)
by_category_rows(d, category, i, limit) ==
    IF i > Len(d.plants) \/ limit = 0 THEN {<<>>}
    ELSE
        LET p == d.plants[i]
            js == SelectSeq(joined(d, p),
                            LAMBDA j : j.pc # <<>> /\ j.pc[1].category = category)
        IN  IF js = <<>>
            THEN by_category_rows(d, category, i + 1, limit)
            ELSE {<<row>> \o rest :
                    row \in grouped(p, js),
                    rest \in by_category_rows(d, category, i + 1, limit - 1)}

\* get_plants_by_category, lines 200-214: the lists the call may return.
get_plants_by_category(d, category, limit) ==
    {[i \in 1..Len(rows) |-> _row_to_dict(rows[i])] :
        rows \in by_category_rows(d, category, 1, limit)}

----------------------------------------------------------------------------
(* save_plant, lines 89-153, one connection per call *)

Writers == {"w1", "w2"}

has_categories(plant_data) ==
    "categories" \in DOMAIN plant_data /\ Len(plant_data["categories"]) > 0

\* The statement after the INSERT into plants / after the categories loop.
after_plant(plant_data) ==
    IF has_categories(plant_data) THEN "categories"
    ELSE IF "weather_data" \in DOMAIN plant_data THEN "weather"
    ELSE "commit"

after_categories(plant_data) ==
    IF "weather_data" \in DOMAIN plant_data THEN "weather" ELSE "commit"

\* What the other connections read while a writer is inside its transaction:
\* the committed file. reader_view_dirty is what a shared connection would
\* read instead: the writer's uncommitted pages.
reader_view_dirty(committed, writer_view, holder) ==
    IF holder = NoLock THEN committed ELSE writer_view[holder]

reader_view(committed, writer_view, holder) == committed

\* with sqlite3.connect(self.db_path) as conn: cursor = conn.cursor()
Connect(w) ==
    /\ pc[w] = "idle"
    /\ calls < MaxSaves
    /\ \E plant_data \in PlantInputs : arg' = [arg EXCEPT ![w] = plant_data]
    /\ pc' = [pc EXCEPT ![w] = "plants"]
    /\ calls' = calls + 1
    /\ UNCHANGED <<db, lock, tx, plant_id, idx, commits, observed>>

\* The first statement opens the write transaction (the RESERVED lock, which
\* one connection at a time holds) and inserts the row.
InsertPlant(w) ==
    /\ pc[w] = "plants"
    /\ lock = NoLock
    /\ ~not_null_fails(arg[w])
    /\ lock' = w
    /\ tx' = [tx EXCEPT ![w] = insert_plant(db, arg[w], clock)]
    /\ plant_id' = [plant_id EXCEPT ![w] = lastrowid(db, arg[w])]
    /\ idx' = [idx EXCEPT ![w] = 1]
    /\ pc' = [pc EXCEPT ![w] = after_plant(arg[w])]
    /\ UNCHANGED <<db, arg, calls, commits, observed>>

\* The INSERT raises sqlite3.IntegrityError; the with block rolls back and the
\* exception leaves save_plant.
IntegrityError(w) ==
    /\ pc[w] = "plants"
    /\ lock = NoLock
    /\ not_null_fails(arg[w])
    /\ pc' = [pc EXCEPT ![w] = "idle"]
    /\ UNCHANGED <<db, lock, tx, arg, plant_id, idx, calls, commits, observed>>

\* Another connection keeps the lock for longer than the busy timeout:
\* sqlite3.OperationalError (database is locked) leaves save_plant.
DatabaseLocked(w) ==
    /\ pc[w] = "plants"
    /\ lock \notin {NoLock, w}
    /\ pc' = [pc EXCEPT ![w] = "idle"]
    /\ UNCHANGED <<db, lock, tx, arg, plant_id, idx, calls, commits, observed>>

\* One turn of: for category_data in plant_data['categories'].
InsertCategory(w) ==
    /\ pc[w] = "categories"
    /\ tx' = [tx EXCEPT ![w] = insert_category(@, plant_id[w], arg[w]["categories"][idx[w]])]
    /\ idx' = [idx EXCEPT ![w] = @ + 1]
    /\ pc' = [pc EXCEPT ![w] =
                IF idx[w] < Len(arg[w]["categories"]) THEN "categories"
                ELSE after_categories(arg[w])]
    /\ UNCHANGED <<db, lock, arg, plant_id, calls, commits, observed>>

\* if 'weather_data' in plant_data: INSERT OR REPLACE INTO plant_weather_data
InsertWeather(w) ==
    /\ pc[w] = "weather"
    /\ tx' = [tx EXCEPT ![w] = insert_weather(@, plant_id[w], arg[w]["weather_data"])]
    /\ pc' = [pc EXCEPT ![w] = "commit"]
    /\ UNCHANGED <<db, lock, arg, plant_id, idx, calls, commits, observed>>

\* conn.commit(); return plant_id
Commit(w) ==
    /\ pc[w] = "commit"
    /\ db' = tx[w]
    /\ lock' = NoLock
    /\ commits' = Append(commits, arg[w])
    /\ pc' = [pc EXCEPT ![w] = "idle"]
    /\ UNCHANGED <<tx, arg, plant_id, idx, calls, observed>>

\* What leaving the with block by an exception is not: a commit of the
\* statements executed so far.
rollback_keeps(committed, writer_view) == writer_view

\* with sqlite3.connect(self.db_path) as conn, left by an exception: the
\* connection rolls the open transaction back, the file is as last committed.
rollback(committed, writer_view) == committed

\* KeyboardInterrupt while a process is inside save_plant: no except Exception
\* catches it, the with block rolls back, main logs it and the process ends.
Interrupt(w) ==
    /\ pc[w] \in {"plants", "categories", "weather", "commit"}
    /\ db' = IF lock = w THEN rollback(db, tx[w]) ELSE db
    /\ lock' = IF lock = w THEN NoLock ELSE lock
    /\ pc' = [pc EXCEPT ![w] = "interrupted"]
    /\ UNCHANGED <<tx, arg, plant_id, idx, calls, commits, observed>>

\* A reader's get_plant, on a connection of its own.
GetPlant ==
    /\ \E name \in Identifiers :
         LET found == get_plant_rows(reader_view(db, tx, lock), name)
         IN  \E rows \in (IF found = {} THEN {<<>>} ELSE {<<row>> : row \in found}) :
                observed' = [call |-> "get_plant", key |-> name, rows |-> rows]
    /\ UNCHANGED <<db, lock, tx, pc, arg, plant_id, idx, calls, commits>>

\* A reader's get_plants_by_category, on a connection of its own.
GetPlantsByCategory ==
    /\ \E category \in Categories :
         \E rows \in by_category_rows(reader_view(db, tx, lock), category, 1,
                                        DefaultCategoryLimit) :
            observed' = [call |-> "get_plants_by_category", key |-> category,
                         rows |-> rows]
    /\ UNCHANGED <<db, lock, tx, pc, arg, plant_id, idx, calls, commits>>

\* datetime.now() moves on.
Tick ==
    /\ clock < MaxClock
    /\ clock' = clock + 1
    /\ UNCHANGED <<storeVars, collectVars, batchVars>>

StoreInit ==
    /\ db = init_database
    /\ lock = NoLock
    /\ tx = [w \in Writers |-> init_database]
    /\ pc = [w \in Writers |-> "idle"]
    /\ arg = [w \in Writers |-> NoName]
    /\ plant_id = [w \in Writers |-> 0]
    /\ idx = [w \in Writers |-> 1]
    /\ calls = 0
    /\ commits = <<>>
    /\ observed = [call |-> "none", key |-> None, rows |-> <<>>]

\* PlantDataCollector.__init__, lines 17-25: self.cache = {}
CollectIdle ==
    /\ cpc = "idle"
    /\ plant_name = None
    /\ combined_data = EmptyDict
    /\ fetched = EmptyDict
    /\ cache = EmptyDict
    /\ collected = [name |-> None, at |-> 0, complete |-> FALSE]

\* PlantsIntegrationSystem.__init__, lines 29-37
BatchIdle ==
    /\ plant_list = <<>>
    /\ position = 1
    /\ failing = {}
    /\ stats = [total_processed |-> 0, successful_collects |-> 0,
                failed_collects |-> 0, saved_to_db |-> 0, errors |-> <<>>]
    /\ bpc = "idle"

Init == StoreInit /\ clock = 0 /\ CollectIdle /\ BatchIdle

Next ==
    \/ \E w \in Writers : Connect(w) /\ UNCHANGED <<clock, collectVars, batchVars>>
    \/ \E w \in Writers : InsertPlant(w) /\ UNCHANGED <<clock, collectVars, batchVars>>
    \/ \E w \in Writers : IntegrityError(w) /\ UNCHANGED <<clock, collectVars, batchVars>>
    \/ \E w \in Writers : DatabaseLocked(w) /\ UNCHANGED <<clock, collectVars, batchVars>>
    \/ \E w \in Writers : InsertCategory(w) /\ UNCHANGED <<clock, collectVars, batchVars>>
    \/ \E w \in Writers : InsertWeather(w) /\ UNCHANGED <<clock, collectVars, batchVars>>
    \/ \E w \in Writers : Commit(w) /\ UNCHANGED <<clock, collectVars, batchVars>>
    \/ \E w \in Writers : Interrupt(w) /\ UNCHANGED <<clock, collectVars, batchVars>>
    \/ GetPlant /\ UNCHANGED <<clock, collectVars, batchVars>>
    \/ GetPlantsByCategory /\ UNCHANGED <<clock, collectVars, batchVars>>
    \/ Tick

Spec == Init /\ [][Next]_vars

----------------------------------------------------------------------------
(* PlantDataCollector: what the four sources may answer *)

Sources == <<"trefle", "wikipedia", "plantnet", "openplantbook">>

\* The identifiers handed to collect_comprehensive_plant_data.
PlantNames == {"Rosa rugosa", "Xyz abcdef", "Aceras anthropophorum", ""}

\* A fetch raises, returns None, or returns a payload dict.
Raises == [kind |-> "raise"]
ReturnsNone == [kind |-> "none"]
Returns(data) == [kind |-> "payload", data |-> data]

\* _generate_common_name, lines 306-325, on PlantNames
_generate_common_name(scientific_name) ==
    CASE scientific_name = "Rosa rugosa" -> "Rose"
      [] scientific_name = "Xyz abcdef" -> "Xyz (nom commun inconnu)"
      [] scientific_name = "Aceras anthropophorum" -> "Aceras (nom commun inconnu)"
      [] OTHER -> " (nom commun inconnu)"

\* _extract_family_from_name, lines 327-347, on PlantNames
_extract_family_from_name(scientific_name) ==
    CASE scientific_name = "Rosa rugosa" -> "Rosaceae"
      [] OTHER -> "Famille inconnue"

\* plant_name.split()[0] if len(plant_name.split()) > 1 else plant_name
genus_of(scientific_name) ==
    CASE scientific_name = "Rosa rugosa" -> "Rosa"
      [] scientific_name = "Xyz abcdef" -> "Xyz"
      [] scientific_name = "Aceras anthropophorum" -> "Aceras"
      [] OTHER -> scientific_name

\* plant_name.lower().replace(' ', '_')
pid_of(scientific_name) ==
    CASE scientific_name = "Rosa rugosa" -> "rosa_rugosa"
      [] scientific_name = "Xyz abcdef" -> "xyz_abcdef"
      [] scientific_name = "Aceras anthropophorum" -> "aceras_anthropophorum"
      [] OTHER -> scientific_name

\* _get_trefle_data, lines 86-105: the simulated answer, an answer with an
\* empty family and no genus, and the two failures collect provides for.
_get_trefle_data(name) ==
    {Raises, ReturnsNone,
     Returns([scientific_name |-> name,
              common_name |-> _generate_common_name(name),
              family |-> _extract_family_from_name(name),
              genus |-> genus_of(name),
              bibliography |-> "USDA Plants Database",
              author |-> "USDA"]),
     Returns([scientific_name |-> name,
              common_name |-> "rose",
              family |-> ""])}

\* _get_wikipedia_data, lines 107-130: a summary (an extract longer than 50
\* characters, with or without markup and thumbnail), None, or an exception.
_get_wikipedia_data(name) ==
    {Raises, ReturnsNone,
     Returns([title |-> name,
              description |-> <<"<", "i", ">", "W", "<", "/", "i", ">", "x">>,
              url |-> "http://wiki/page",
              thumbnail |-> "http://img/wiki.jpg"]),
     Returns([title |-> name,
              description |-> <<"W">>,
              url |-> "http://wiki/page",
              thumbnail |-> ""])}

\* _get_plantnet_data, lines 132-151: the simulated answer, an answer of
\* another family whose names repeat in other case, and the failures.
_get_plantnet_data(name) ==
    {Raises, ReturnsNone,
     Returns([species |-> name,
              family |-> _extract_family_from_name(name),
              common_names |-> <<_generate_common_name(name)>>,
              description |-> <<"P", "N">>,
              distribution |-> "Europe",
              habitat |-> "Jardins"]),
     Returns([species |-> name,
              family |-> "Bogus",
              common_names |-> <<"ROSE", "Rose", " ", "ROSE">>,
              description |-> <<"<", "b", ">", "P">>])}

\* _get_openplantbook_data, lines 153-178
_get_openplantbook_data(name) ==
    {Raises, ReturnsNone,
     Returns([pid |-> pid_of(name),
              display_pid |-> name,
              alias |-> _generate_common_name(name),
              temperature_min |-> 10, temperature_max |-> 30,
              humidity_min |-> 40, humidity_max |-> 70,
              light_min |-> 300, light_max |-> 1000,
              ph_min |-> "6.0", ph_max |-> "7.5",
              difficulty |-> "medium",
              watering_frequency |-> "weekly"])}

fetch(source, name) ==
    CASE source = "trefle" -> _get_trefle_data(name)
      [] source = "wikipedia" -> _get_wikipedia_data(name)
      [] source = "plantnet" -> _get_plantnet_data(name)
      [] source = "openplantbook" -> _get_openplantbook_data(name)

----------------------------------------------------------------------------
(* PlantDataCollector: the merge; cd is the combined_data dict *)

\* combined_data as collect_comprehensive_plant_data creates it, lines 33-43
new_combined_data(name) ==
    [scientific_name |-> name,
     common_names |-> EmptyList,
     sources |-> EmptyDict,
     categories |-> EmptyList,
     care_instructions |-> EmptyDict,
     climate_data |-> EmptyDict,
     description |-> EmptyList,
     image_urls |-> EmptyList,
     weather_data |-> EmptyDict]

\* if x: for a str
truthy(x) == x # None /\ x # ""

\* if name not in combined_data['common_names']: ....append(name)
append_unique(list, name) == IF name \in Range(list) THEN list ELSE Append(list, name)

\* _merge_trefle_data, lines 180-196
_merge_trefle_data(cd, trefle_data, now) ==
    LET d1 == Put(cd, "scientific_name",
                  Get(trefle_data, "scientific_name", cd["scientific_name"]))
        d2 == Put(d1, "family", Get(trefle_data, "family", Get(cd, "family", "")))
        d3 == Put(d2, "genus", Get(trefle_data, "genus", Get(cd, "genus", "")))
        d4 == IF truthy(Get(trefle_data, "common_name", None))
              THEN Put(d3, "common_names",
                       append_unique(d3["common_names"], trefle_data["common_name"]))
              ELSE d3
    IN  Put(d4, "sources",
            Put(d4["sources"], "trefle",
                [bibliography |-> Get(trefle_data, "bibliography", ""),
                 author |-> Get(trefle_data, "author", ""),
                 collected_at |-> now]))

\* _merge_wikipedia_data, lines 198-212
_merge_wikipedia_data(cd, wiki_data, now) ==
    LET d1 == IF cd["description"] = <<>> /\ Get(wiki_data, "description", <<>>) # <<>>
              THEN Put(cd, "description", wiki_data["description"])
              ELSE cd
        d2 == IF truthy(Get(wiki_data, "thumbnail", None))
              THEN Put(d1, "image_urls", Append(d1["image_urls"], wiki_data["thumbnail"]))
              ELSE d1
    IN  Put(d2, "sources",
            Put(d2["sources"], "wikipedia",
                [title |-> Get(wiki_data, "title", ""),
                 url |-> Get(wiki_data, "url", ""),
                 collected_at |-> now]))

\* for name in plantnet_data.get('common_names', []): append if not yet there
RECURSIVE extend_unique(_, _)
extend_unique(list, names) ==
    IF names = <<>> THEN list
    ELSE extend_unique(append_unique(list, Head(names)), Tail(names))

\* _merge_plantnet_data, lines 214-230
_merge_plantnet_data(cd, plantnet_data, now) ==
    LET d1 == Put(cd, "common_names",
                  extend_unique(cd["common_names"],
                                Get(plantnet_data, "common_names", EmptyList)))
        d2 == IF d1["description"] = <<>> /\ Get(plantnet_data, "description", <<>>) # <<>>
              THEN Put(d1, "description", plantnet_data["description"])
              ELSE d1
    IN  Put(d2, "sources",
            Put(d2["sources"], "plantnet",
                [family |-> Get(plantnet_data, "family", ""),
                 distribution |-> Get(plantnet_data, "distribution", ""),
                 habitat |-> Get(plantnet_data, "habitat", ""),
                 collected_at |-> now]))

\* _merge_openplantbook_data, lines 232-254
_merge_openplantbook_data(cd, opb_data, now) ==
    LET d1 == Put(cd, "care_instructions",
                  [watering_frequency |-> Get(opb_data, "watering_frequency", ""),
                   difficulty |-> Get(opb_data, "difficulty", ""),
                   ph_range |-> <<Get(opb_data, "ph_min", "")>> \o <<"-">>
                                    \o <<Get(opb_data, "ph_max", "")>>])
        d2 == Put(d1, "weather_data",
                  [temperature_min |-> Get(opb_data, "temperature_min", None),
                   temperature_max |-> Get(opb_data, "temperature_max", None),
                   humidity_min |-> Get(opb_data, "humidity_min", None),
                   humidity_max |-> Get(opb_data, "humidity_max", None),
                   sunlight_hours_min |-> Get(opb_data, "light_min", None),
                   sunlight_hours_max |-> Get(opb_data, "light_max", None)])
    IN  Put(d2, "sources",
            Put(d2["sources"], "openplantbook",
                [pid |-> Get(opb_data, "pid", ""), collected_at |-> now]))

merge(source, cd, data, now) ==
    CASE source = "trefle" -> _merge_trefle_data(cd, data, now)
      [] source = "wikipedia" -> _merge_wikipedia_data(cd, data, now)
      [] source = "plantnet" -> _merge_plantnet_data(cd, data, now)
      [] source = "openplantbook" -> _merge_openplantbook_data(cd, data, now)

\* What a try block is not: one whose exception discards what the earlier
\* sources contributed.
collect_from_fatal(source, cd, outcome, now) ==
    IF outcome.kind = "payload" /\ outcome.data # EmptyDict
    THEN merge(source, cd, outcome.data, now)
    ELSE IF outcome.kind = "raise"
         THEN new_combined_data(cd["scientific_name"])
         ELSE cd

\* One try block of collect_comprehensive_plant_data, lines 45-79: an exception
\* is logged, None (or an empty payload) is skipped, a payload is merged.
collect_from(source, cd, outcome, now) ==
    IF outcome.kind = "payload" /\ outcome.data # EmptyDict
    THEN merge(source, cd, outcome.data, now)
    ELSE cd

----------------------------------------------------------------------------
(* PlantDataCollector: categories and cleaning *)

\* The keyword tests of _categorize_plant, lines 282-298, in their order.
CategoryRules ==
    <<[keywords |-> <<"rosa", "tulipa", "lilium", "iris", "daisy">>,
       category |-> "fleurs", subcategory |-> "fleurs à bulbe"],
      [keywords |-> <<"quercus", "fagus", "acer", "betula">>,
       category |-> "arbres", subcategory |-> "feuillus"],
      [keywords |-> <<"pinus", "abies", "picea">>,
       category |-> "arbres", subcategory |-> "conifères"],
      [keywords |-> <<"solanum", "lycopersicum">>,
       category |-> "fruits", subcategory |-> "légumes-fruits"],
      [keywords |-> <<"daucus", "carota">>,
       category |-> "legumes", subcategory |-> "racines"],
      [keywords |-> <<"mentha", "rosmarinus", "thymus">>,
       category |-> "aromates", subcategory |-> "fines herbes"]>>

\* The keyword tests alone, without the default category of lines 301-302.
categorize_without_default(scientific_name) ==
    LET name_lower == lower(chars(scientific_name))
        fires(rule) == \E i \in 1..Len(rule.keywords) :
                            contains(name_lower, chars(rule.keywords[i]))
        fired == SelectSeq(CategoryRules, fires)
    IN  [i \in 1..Len(fired) |->
            [category |-> fired[i].category, subcategory |-> fired[i].subcategory]]

\* _categorize_plant, lines 276-304
_categorize_plant(scientific_name) ==
    LET name_lower == lower(chars(scientific_name))
        fires(rule) == \E i \in 1..Len(rule.keywords) :
                            contains(name_lower, chars(rule.keywords[i]))
        fired == SelectSeq(CategoryRules, fires)
    IN  IF fired = <<>>
        THEN <<[category |-> "divers", subcategory |-> "autres"]>>
        ELSE [i \in 1..Len(fired) |->
                [category |-> fired[i].category, subcategory |-> fired[i].subcategory]]

\* Index of the first '>' in cs, 0 when there is none.
first_gt(cs) ==
    IF \E i \in 1..Len(cs) : cs[i] = ">"
    THEN CHOOSE i \in 1..Len(cs) : cs[i] = ">" /\ \A j \in 1..(i - 1) : cs[j] # ">"
    ELSE 0

\* re.sub(r'<[^>]+>', '', description): a '<', one or more characters other
\* than '>', and a '>' are removed, leftmost first.
RECURSIVE remove_tags(_)
remove_tags(cs) ==
    IF cs = <<>> THEN <<>>
    ELSE IF Head(cs) = "<" /\ first_gt(Tail(cs)) > 1
         THEN remove_tags(SubSeq(cs, first_gt(Tail(cs)) + 2, Len(cs)))
         ELSE <<Head(cs)>> \o remove_tags(Tail(cs))

\* data['description'][:1000]
DescriptionLimit == 1000

clean_description(description) ==
    IF description = <<>> THEN description
    ELSE SubSeq(remove_tags(description), 1,
                Min(Len(remove_tags(description)), DescriptionLimit))

\* _clean_and_validate_data, lines 256-274
_clean_and_validate_data(data) ==
    LET kept(name) == truthy(name) /\ strip(chars(name)) # <<>>
        d1 == Put(data, "common_names", SelectSeq(data["common_names"], kept))
    IN  IF ~truthy(d1["scientific_name"])
        THEN NoneDict
        ELSE Put(Put(d1, "categories", _categorize_plant(d1["scientific_name"])),
                 "description", clean_description(d1["description"]))

\* collect_comprehensive_plant_data, lines 27-84, for the answers the four
\* sources give (outcomes[source]).
RECURSIVE collect_all(_, _, _, _)
collect_all(cd, outcomes, i, now) ==
    IF i > Len(Sources) THEN cd
    ELSE collect_all(collect_from(Sources[i], cd, outcomes[Sources[i]], now),
                     outcomes, i + 1, now)

collect_comprehensive_plant_data(name, outcomes, now) ==
    _clean_and_validate_data(collect_all(new_combined_data(name), outcomes, 1, now))

----------------------------------------------------------------------------
(* collect_comprehensive_plant_data, one try block at a time *)

\* self.cache_duration = timedelta(hours=24), line 25; the clock counts hours.
cache_duration == 24

\* Every source returned a payload.
all_payloads(outcomes) ==
    \A i \in 1..Len(Sources) :
        Sources[i] \in DOMAIN outcomes /\ outcomes[Sources[i]].kind = "payload"

\* self.cache after the try block of a source: no line of the collector reads
\* or writes self.cache (or the api_cache table), so it stays as it was.
cache_after(c, source, name, outcome, now) == c

next_step(step) ==
    CASE step = "trefle" -> "wikipedia"
      [] step = "wikipedia" -> "plantnet"
      [] step = "plantnet" -> "openplantbook"
      [] step = "openplantbook" -> "clean"

\* lines 31-43; the collector object serves one call after another.
StartCollect ==
    /\ cpc \in {"idle", "done"}
    /\ \E name \in PlantNames :
        /\ plant_name' = name
        /\ combined_data' = new_combined_data(name)
    /\ fetched' = EmptyDict
    /\ cpc' = "trefle"
    /\ UNCHANGED <<storeVars, clock, cache, collected, batchVars>>

\* lines 45-79: the try block of the source cpc names
CollectSource ==
    /\ cpc \in Range(Sources)
    /\ \E outcome \in fetch(cpc, plant_name) :
        /\ fetched' = Put(fetched, cpc, outcome)
        /\ combined_data' = collect_from(cpc, combined_data, outcome, clock)
        /\ cache' = cache_after(cache, cpc, plant_name, outcome, clock)
    /\ cpc' = next_step(cpc)
    /\ UNCHANGED <<storeVars, clock, plant_name, collected, batchVars>>

\* lines 81-84
CleanAndReturn ==
    /\ cpc = "clean"
    /\ combined_data' = _clean_and_validate_data(combined_data)
    /\ cpc' = "done"
    /\ collected' = [name |-> plant_name, at |-> clock, complete |-> all_payloads(fetched)]
    /\ UNCHANGED <<storeVars, clock, plant_name, fetched, cache, batchVars>>

CollectNext == StartCollect \/ CollectSource \/ CleanAndReturn \/ Tick

SpecCollect == Init /\ [][CollectNext]_vars

----------------------------------------------------------------------------
(* PlantsIntegrationSystem, plants_integration.py *)

\* save_plant, lines 89-153, from the first statement to the commit, on a
\* connection that no other writer delays.
RECURSIVE insert_categories(_, _, _)
insert_categories(d, id, categories) ==
    IF categories = <<>> THEN d
    ELSE insert_categories(insert_category(d, id, Head(categories)), id, Tail(categories))

save_plant(d, plant_data, now) ==
    LET id == lastrowid(d, plant_data)
        d1 == insert_plant(d, plant_data, now)
        d2 == IF "categories" \in DOMAIN plant_data
              THEN insert_categories(d1, id, plant_data["categories"])
              ELSE d1
    IN  IF "weather_data" \in DOMAIN plant_data
        THEN insert_weather(d2, id, plant_data["weather_data"])
        ELSE d2

\* The plant lists of a batch run: up to MaxBatch identifiers.
PlantLists == UNION {[1..n -> PlantNames] : n \in 1..MaxBatch}

AllRaise == [s \in Range(Sources) |-> Raises]
AllNone == [s \in Range(Sources) |-> ReturnsNone]

\* The simulated answer of each source, Wikipedia giving a summary.
simulated(name) ==
    [s \in Range(Sources) |->
        CHOOSE o \in fetch(s, name) :
            /\ o.kind = "payload"
            /\ s = "trefle" => "genus" \in DOMAIN o.data
            /\ s = "wikipedia" => o.data["thumbnail"] # ""
            /\ s = "plantnet" => "habitat" \in DOMAIN o.data]

\* What the sources answer for an identifier during a batch run: nothing at
\* all for a failing identifier; otherwise every simulated answer, or those of
\* PlantNet and OpenPlantBook only.
answers(name, fails) ==
    IF fails THEN {AllRaise, AllNone}
    ELSE {simulated(name),
          [simulated(name) EXCEPT !["trefle"] = Raises, !["wikipedia"] = ReturnsNone]}

no_payload(outcomes) ==
    \A s \in DOMAIN outcomes : outcomes[s].kind # "payload"

\* process_plant_list is called, line 39. The batches of batch_size only pace
\* the run (time.sleep); the plant names are processed in list order.
StartBatch ==
    /\ bpc = "idle"
    /\ \E list \in PlantLists :
        /\ plant_list' = list
        /\ \E f \in SUBSET (Range(list) \ {""}) : failing' = f
    /\ position' = 1
    /\ bpc' = "collect"
    /\ UNCHANGED <<storeVars, clock, collectVars, stats>>

\* _process_single_plant, lines 73-84: count, collect, and leave with False
\* when nothing came back.
ProcessCollect ==
    /\ bpc = "collect"
    /\ position <= Len(plant_list)
    /\ plant_name' = plant_list[position]
    /\ \E outcomes \in answers(plant_list[position], plant_list[position] \in failing) :
        /\ fetched' = outcomes
        /\ collected' = [name |-> plant_list[position], at |-> clock,
                         complete |-> all_payloads(outcomes)]
        /\ combined_data' = collect_comprehensive_plant_data(plant_list[position], outcomes, clock)
    /\ IF combined_data' = NoneDict
       THEN /\ stats' = [stats EXCEPT !.total_processed = @ + 1]
            /\ position' = position + 1
            /\ bpc' = "collect"
       ELSE /\ stats' = [stats EXCEPT !.total_processed = @ + 1,
                                      !.successful_collects = @ + 1]
            /\ position' = position
            /\ bpc' = "save"
    /\ cache' = cache
    /\ UNCHANGED <<storeVars, clock, cpc, plant_list, failing>>

\* _process_single_plant, lines 86-92: save_plant commits and returns the id.
ProcessSave ==
    /\ bpc = "save"
    /\ db' = save_plant(db, combined_data, clock)
    /\ commits' = Append(commits, combined_data)
    /\ stats' = [stats EXCEPT !.saved_to_db =
                    IF lastrowid(db, combined_data) # 0 THEN @ + 1 ELSE @]
    /\ position' = position + 1
    /\ bpc' = "collect"
    /\ UNCHANGED <<lock, tx, pc, arg, plant_id, idx, calls, observed,
                   clock, collectVars, plant_list, failing>>

\* _process_single_plant, lines 97-99: save_plant raises (another process
\* keeps the database locked); the exception is logged and False returned.
ProcessSaveRaises ==
    /\ bpc = "save"
    /\ position' = position + 1
    /\ bpc' = "collect"
    /\ UNCHANGED <<storeVars, clock, collectVars, plant_list, failing, stats>>

\* return self.stats, line 67. The except branch of lines 53-60 is never
\* entered: _process_single_plant catches every Exception itself.
FinishBatch ==
    /\ bpc = "collect"
    /\ position > Len(plant_list)
    /\ bpc' = "done"
    /\ UNCHANGED <<storeVars, clock, collectVars, plant_list, position, failing, stats>>

BatchNext ==
    \/ StartBatch
    \/ ProcessCollect
    \/ ProcessSave
    \/ ProcessSaveRaises
    \/ FinishBatch
    \/ Tick

SpecBatch == Init /\ [][BatchNext]_vars

----------------------------------------------------------------------------
(* Claims about the Store, checked under Spec *)

name_of(plant_data) == Get(plant_data, "scientific_name", None)

\* The committed save_plant arguments for one identifier, oldest first.
committed_for(name) == SelectSeq(commits, LAMBDA r : name_of(r) = name)

latest(name) == committed_for(name)[Len(committed_for(name))]

\* The tags of a plant_data dict, in the text form get_plant reports them.
tags_of(plant_data) ==
    {tag_text(c) : c \in Range(Get(plant_data, "categories", EmptyList))}

\* The tags a delivered row reports.
tags_in(row) == Range(_row_to_dict(row).categories)

\* The weather row a plant_data dict asks for: none, or its non-NULL columns.
ranges_of(plant_data) ==
    IF "weather_data" \in DOMAIN plant_data
    THEN <<[c \in WeatherColumns \cap DOMAIN plant_data["weather_data"] |->
                plant_data["weather_data"][c]]>>
    ELSE <<>>

ranges_in(row) == IF row.pwd = <<>> THEN <<>> ELSE <<row.pwd[1].columns>>

\* The returned dict g carries the fields of plant_data r that live in the
\* plants row.
same_fields(g, r) ==
    /\ g # NoneDict
    /\ g.scientific_name = name_of(r)
    /\ g.common_names = Get(r, "common_names", EmptyList)
    /\ g.family = Get(r, "family", None)
    /\ g.genus = Get(r, "genus", None)
    /\ g.description = Get(r, "description", None)
    /\ g.care_instructions = Get(r, "care_instructions", EmptyDict)
    /\ g.image_urls = Get(r, "image_urls", EmptyList)
    /\ g.sources = Get(r, "sources", EmptyDict)

\* C1: save_plant(r) followed immediately by get_plant(r.identifier) returns a
\* record equal to r: identifier, common names, family, genus, description,
\* care parameters, media URLs, provenance, category tags and attribute ranges.
C1_UpsertThenGetEqual ==
    \A name \in Identifiers :
        committed_for(name) # <<>> =>
            \A g \in get_plant(db, name) :
                /\ same_fields(g, latest(name))
                /\ Range(g.categories) = tags_of(latest(name))
                /\ Get(g, "weather_data", EmptyDict)
                        = Get(latest(name), "weather_data", EmptyDict)

unique_identifiers(d) ==
    \A i, j \in 1..Len(d.plants) :
        i # j => d.plants[i].scientific_name # d.plants[j].scientific_name

identifiers_in(d) == {d.plants[i].scientific_name : i \in 1..Len(d.plants)}

\* C2: the Store holds at most one canonical record per identifier; an upsert of
\* an identifier already present leaves the record count unchanged, an upsert of
\* a new identifier raises it by exactly one.
C2_OneRecordPerIdentifier ==
    [][db' # db =>
        /\ unique_identifiers(db')
        /\ Len(commits') = Len(commits) + 1
        /\ Len(db'.plants) =
                IF name_of(commits'[Len(commits')]) \in identifiers_in(db)
                THEN Len(db.plants) ELSE Len(db.plants) + 1]_vars

\* Witness of C2: an identifier was upserted twice and the Store holds one row.
C2_Witness ==
    /\ Len(commits) = 2
    /\ name_of(commits[1]) = name_of(commits[2])
    /\ Len(db.plants) = 1

ids_in(d) == {d.plants[i].id : i \in 1..Len(d.plants)}

\* C3: every category-tag row and every attribute-range row references a
\* canonical row that exists, and a canonical record has at most one
\* attribute-range row (no orphans after a replacement).
C3_NoOrphans ==
    /\ \A i \in 1..Len(db.plant_categories) :
            db.plant_categories[i].plant_id \in ids_in(db)
    /\ \A i \in 1..Len(db.plant_weather_data) :
            db.plant_weather_data[i].plant_id \in ids_in(db)
    /\ \A i, j \in 1..Len(db.plant_weather_data) :
            i # j => db.plant_weather_data[i].plant_id # db.plant_weather_data[j].plant_id

categories_of(plant_data) ==
    {c.category : c \in Range(Get(plant_data, "categories", EmptyList))}

\* C4: once identifier i, upserted earlier with category tag c, is upserted
\* again without c, get_plants_by_category(c) omits i, and get_plant(i) reports
\* exactly the tags of the latest upsert.
C4_ReplacedTagsAreGone ==
    \A name \in Identifiers :
        committed_for(name) # <<>> =>
            /\ \A c \in Categories :
                    (/\ \E k \in 1..Len(committed_for(name)) :
                            c \in categories_of(committed_for(name)[k])
                     /\ c \notin categories_of(latest(name)))
                    => \A result \in get_plants_by_category(db, c, DefaultCategoryLimit) :
                            \A k \in 1..Len(result) : result[k].scientific_name # name
            /\ \A g \in get_plant(db, name) :
                    g # NoneDict /\ Range(g.categories) = tags_of(latest(name))

\* Witness of C4: "Rosa rugosa" was upserted with a fleurs tag and then without.
C4_Witness ==
    /\ Len(commits) = 2
    /\ commits[1] = RosaV1
    /\ commits[2] = RosaV2
    /\ "fleurs" \in categories_of(commits[1])
    /\ "fleurs" \notin categories_of(commits[2])

\* The plant_data dicts a reader may meet as a whole: the committed ones and
\* the one a writer is in the middle of saving.
versions ==
    Range(commits) \cup {arg[w] : w \in {v \in Writers : pc[v] \in {"categories", "weather", "commit"}}}

is_version(p, r) ==
    /\ p.scientific_name = name_of(r)
    /\ p.family = Get(r, "family", None)
    /\ p.common_names = json_dumps(Get(r, "common_names", EmptyList))
    /\ p.description = Get(r, "description", None)

\* C5: a get_plant or get_plants_by_category running while save_plant is under
\* way observes the whole old version or the whole new one: the row, all of
\* its tags and its ranges, never a row without its tags or with a mix.
C5_ReadersSeeWholeVersions ==
    \A i \in 1..Len(observed.rows) :
        \E r \in versions :
            /\ is_version(observed.rows[i].p, r)
            /\ observed.call = "get_plant" =>
                    /\ tags_in(observed.rows[i]) = tags_of(r)
                    /\ ranges_in(observed.rows[i]) = ranges_of(r)
            /\ observed.call = "get_plants_by_category" =>
                    tags_in(observed.rows[i]) =
                        {tag_text(c) : c \in {t \in Range(Get(r, "categories", EmptyList)) :
                                                t.category = observed.key}}

\* Witness of C5: a reader got the old "Rosa rugosa" while a writer held the
\* transaction that replaces it.
C5_Witness ==
    /\ lock \in Writers
    /\ observed.call = "get_plant"
    /\ observed.rows # <<>>
    /\ pc[lock] = "categories"
    /\ name_of(arg[lock]) = observed.key
    /\ observed.rows[1].p.id < plant_id[lock]
    /\ ~is_version(observed.rows[1].p, arg[lock])

\* C6: two concurrent save_plant calls for one identifier are serialized: when
\* both are over, the row, tags and ranges get_plant sees for the identifier
\* are those of the call that committed last.
C6_LastCommitWins ==
    (\A w \in Writers : pc[w] = "idle") =>
        \A name \in Identifiers :
            committed_for(name) # <<>> =>
                /\ get_plant_rows(db, name) # {}
                /\ \A row \in get_plant_rows(db, name) :
                        /\ same_fields(_row_to_dict(row), latest(name))
                        /\ tags_in(row) = tags_of(latest(name))
                        /\ ranges_in(row) = ranges_of(latest(name))

\* Witness of C6: both writers are inside save_plant for the same identifier
\* with different records, one about to commit, the other waiting for the lock.
C6_Witness ==
    \E w, v \in Writers :
        /\ w # v
        /\ lock = w
        /\ pc[w] = "commit"
        /\ pc[v] = "plants"
        /\ name_of(arg[w]) = name_of(arg[v])
        /\ arg[w] # arg[v]

----------------------------------------------------------------------------
(* Claims about the merge, checked under SpecCollect *)

\* What a source supplied for a field: the payload's value, or empty.
supplied(source, field, empty) ==
    IF source \in DOMAIN fetched /\ fetched[source].kind = "payload"
    THEN Get(fetched[source].data, field, empty)
    ELSE empty

\* The value of the earliest source, in priority order, that supplies a
\* non-empty value for the field.
first_non_empty(field, empty) ==
    LET having == {i \in 1..Len(Sources) : supplied(Sources[i], field, empty) # empty}
    IN  IF having = {} THEN empty
        ELSE supplied(Sources[CHOOSE i \in having : \A j \in having : i <= j], field, empty)

returned_record == cpc = "done" /\ combined_data # NoneDict

\* C7: family, genus and description of the merged record are each the value of
\* the earliest source in the order Trefle, Wikipedia, PlantNet, OpenPlantBook
\* that supplies a non-empty value (the description as cleaned); an empty
\* earlier value never blocks a later non-empty one.
C7_FirstNonEmptyWins ==
    returned_record =>
        /\ Get(combined_data, "family", "") = first_non_empty("family", "")
        /\ Get(combined_data, "genus", "") = first_non_empty("genus", "")
        /\ combined_data["description"]
                = clean_description(first_non_empty("description", <<>>))

\* The common names the sources supplied, in priority order.
supplied_names ==
    (IF truthy(supplied("trefle", "common_name", "")) 
     THEN <<supplied("trefle", "common_name", "")>> ELSE <<>>)
    \o supplied("plantnet", "common_names", <<>>)

same_name(a, b) == lower(chars(a)) = lower(chars(b))

\* The first occurrence of every non-blank name, names compared without case.
RECURSIVE first_seen(_, _)
first_seen(kept, names) ==
    IF names = <<>> THEN kept
    ELSE IF strip(chars(Head(names))) = <<>>
            \/ \E i \in 1..Len(kept) : same_name(kept[i], Head(names))
         THEN first_seen(kept, Tail(names))
         ELSE first_seen(Append(kept, Head(names)), Tail(names))

\* C8: the merged common names hold no two entries equal under case-insensitive
\* comparison, and stand in the order first seen across the sources.
C8_NamesUniqueIgnoringCase ==
    returned_record =>
        /\ \A i, j \in 1..Len(combined_data["common_names"]) :
                i # j => ~same_name(combined_data["common_names"][i],
                                    combined_data["common_names"][j])
        /\ combined_data["common_names"] = first_seen(<<>>, supplied_names)

----------------------------------------------------------------------------
(* Claims about the batch run, checked under SpecBatch *)

\* C9: when every source fetch for an identifier fails or returns no payload,
\* collect_comprehensive_plant_data yields no record and the batch run persists
\* nothing for the identifier.
C9_NoDataCollected ==
    (plant_name # None /\ fetched # EmptyDict /\ no_payload(fetched)) =>
        /\ combined_data = NoneDict
        /\ plant_name \notin identifiers_in(db)

\* C10: at the end of a batch in which every save_plant committed, an
\* identifier whose fetches always fail is not persisted, is listed in
\* stats['errors'] and counted in failed_collects, and every other identifier
\* of the batch is persisted.
C10_FailuresAreReported ==
    (bpc = "done" /\ stats.saved_to_db = stats.successful_collects) =>
        \A k \in 1..Len(plant_list) :
            IF plant_list[k] \in failing
            THEN /\ plant_list[k] \notin identifiers_in(db)
                 /\ \E e \in 1..Len(stats.errors) : stats.errors[e].plant = plant_list[k]
                 /\ stats.failed_collects >= 1
            ELSE plant_list[k] # "" => plant_list[k] \in identifiers_in(db)

\* A step of the batch run in which save_plant raised instead of committing.
save_failed_step == bpc = "save" /\ bpc' = "collect" /\ commits' = commits

\* C11: when save_plant fails to commit for an identifier during a batch run,
\* the identifier is recorded as failed (failed_collects raised by one and an
\* entry naming it added to stats['errors']), saved_to_db is not raised for it,
\* and the run goes on with the next identifier.
C11_SaveFailureIsRecorded ==
    [][save_failed_step =>
        /\ stats'.failed_collects = stats.failed_collects + 1
        /\ \E e \in 1..Len(stats'.errors) : stats'.errors[e].plant = plant_list[position]
        /\ stats'.saved_to_db = stats.saved_to_db
        /\ position' = position + 1]_vars

\* C12: aggregating the empty identifier fails at once: no source is fetched,
\* no record comes back and nothing is written to the Store.
C12_EmptyIdentifierFailsFast ==
    plant_name = "" =>
        /\ fetched = EmptyDict
        /\ combined_data = NoneDict
        /\ "" \notin identifiers_in(db)

----------------------------------------------------------------------------
(* Claims about the categories, checked under SpecCollect *)

\* The categories of the returned record are exactly the given tags.
categorized_as(name, tags) ==
    (returned_record /\ plant_name = name) => combined_data["categories"] = tags

----------------------------------------------------------------------------
(* Claims about the cache, checked under SpecCollect *)

\* A call of collect_comprehensive_plant_data is under way for the identifier
\* of the call before it, all of whose sources answered less than
\* cache_duration ago.
second_collect_in_window ==
    /\ cpc \in Range(Sources) \cup {"clean"}
    /\ collected.name = plant_name
    /\ collected.complete
    /\ clock - collected.at < cache_duration

\* C14: a payload a source returned is stored in the cache under (source,
\* identifier), and a second aggregation of the same identifier within the
\* freshness window of 24 hours fetches from no source.
C14_CacheAvoidsRefetch ==
    /\ \A s \in DOMAIN fetched :
            fetched[s].kind = "payload" => <<s, plant_name>> \in DOMAIN cache
    /\ second_collect_in_window => fetched = EmptyDict

----------------------------------------------------------------------------
(* search_plants, lines 175-198 *)

\* json.dumps of one character of a str: ensure_ascii is left at its default,
\* so a character outside ASCII becomes a \uXXXX escape.
json_char(c) ==
    CASE c = "é" -> <<"\\", "u", "0", "0", "e", "9">>
      [] c = "à" -> <<"\\", "u", "0", "0", "e", "0">>
      [] c = "\"" -> <<"\\", "\"">>
      [] c = "\\" -> <<"\\", "\\">>
      [] OTHER -> <<c>>

RECURSIVE json_str(_)
json_str(cs) == IF cs = <<>> THEN <<>> ELSE json_char(Head(cs)) \o json_str(Tail(cs))

\* The text json.dumps writes for a list of strs: ["a", "b"]
RECURSIVE json_items(_)
json_items(list) ==
    IF list = <<>> THEN <<>>
    ELSE <<"\"">> \o json_str(chars(Head(list))) \o <<"\"">>
            \o (IF Len(list) > 1 THEN <<",", " ">> ELSE <<>>)
            \o json_items(Tail(list))

json_text(list) == <<"[">> \o json_items(list) \o <<"]">>

\* SQLite's text LIKE pattern: '%' stands for any text, '_' for any one
\* character, every other character for itself, the letters A-Z without case.
RECURSIVE like(_, _)
like(text, pattern) ==
    IF pattern = <<>> THEN text = <<>>
    ELSE IF Head(pattern) = "%"
         THEN like(text, Tail(pattern)) \/ (text # <<>> /\ like(Tail(text), pattern))
         ELSE /\ text # <<>>
              /\ Head(pattern) = "_" \/ lower_char(Head(pattern)) = lower_char(Head(text))
              /\ like(Tail(text), Tail(pattern))

\* WHERE (p.scientific_name LIKE ? OR p.common_names LIKE ? OR p.description
\* LIKE ?) with the parameters f'%{query}%'; NULL LIKE ? is not true.
search_where(p, query) ==
    LET pattern == <<"%">> \o chars(query) \o <<"%">>
    IN  \/ like(chars(p.scientific_name), pattern)
        \/ like(json_text(json_loads(p.common_names)), pattern)
        \/ (p.description # None /\ like(p.description, pattern))

\* FROM plants p LEFT JOIN plant_categories pc ON p.id = pc.plant_id, for one
\* row p.
left_join_categories(d, p) ==
    LET pcs == SelectSeq(d.plant_categories, LAMBDA r : r.plant_id = p.id)
    IN  IF pcs = <<>> THEN <<[pc |-> <<>>, pwd |-> <<>>]>>
        ELSE [i \in 1..Len(pcs) |-> [pc |-> <<pcs[i]>>, pwd |-> <<>>]]

\* The SELECT of search_plants: the WHERE on the joined rows, AND pc.category
\* = ? when a category is given, GROUP BY p.id LIMIT ?. There is no ORDER BY;
\* the groups come in id order. The set of row lists fetchall() may give.
RECURSIVE search_rows(_, _, _, _, _)
search_rows(d, query, category, i, limit) ==
    IF i > Len(d.plants) \/ limit = 0 THEN {<<>>}
    ELSE
        LET p == d.plants[i]
            js == SelectSeq(left_join_categories(d, p),
                            LAMBDA j : /\ search_where(p, query)
                                       /\ truthy(category) =>
                                            (j.pc # <<>> /\ j.pc[1].category = category))
        IN  IF js = <<>>
            THEN search_rows(d, query, category, i + 1, limit)
            ELSE {<<row>> \o rest :
                    row \in grouped(p, js),
                    rest \in search_rows(d, query, category, i + 1, limit - 1)}

\* search_plants, lines 175-198: the lists the call may return.
search_plants(d, query, category, limit) ==
    {[i \in 1..Len(rows) |-> _row_to_dict(rows[i])] :
        rows \in search_rows(d, query, category, 1, limit)}

\* The default of search_plants' limit parameter.
DefaultSearchLimit == 50

----------------------------------------------------------------------------
(* A Store that is filled and searched *)

MaxRecords == 3     \* save_plant calls in one behaviour of SpecSearch

Tulipa ==
    [scientific_name |-> "Tulipa gesneriana",
     common_names |-> <<"Tulipe dorée">>,
     family |-> "Liliaceae",
     description |-> <<"b", "u", "l", "b", "e">>,
     categories |-> <<[category |-> "fleurs", subcategory |-> "fleurs à bulbe"]>>]

\* A dict without description and without common names.
Picea ==
    [scientific_name |-> "Picea abies",
     categories |-> <<[category |-> "arbres", subcategory |-> "conifères"]>>]

SearchInputs == {Tulipa, RosaV1, Picea}

Queries == {"ros", "ROS", "é", "r_s", "a"}

Limits == {1, 2, DefaultSearchLimit}

\* save_plant from connect to commit, no other writer being active.
SavePlant ==
    /\ Len(commits) < MaxRecords
    /\ \E plant_data \in SearchInputs :
        /\ db' = save_plant(db, plant_data, clock)
        /\ commits' = Append(commits, plant_data)
    /\ UNCHANGED <<lock, tx, pc, arg, plant_id, idx, calls, observed,
                   clock, collectVars, batchVars>>

\* search_plants(query, category, limit), on a connection of its own.
SearchPlants ==
    /\ \E query \in Queries, category \in {None, "fleurs", "arbres"}, limit \in Limits :
         \E rows \in search_rows(db, query, category, 1, limit) :
            observed' = [call |-> "search_plants", key |-> query,
                         category |-> category, limit |-> limit, rows |-> rows]
    /\ UNCHANGED <<db, lock, tx, pc, arg, plant_id, idx, calls, commits,
                   clock, collectVars, batchVars>>

\* The time of a save does not enter any search: the clock stands still.
SearchNext == SavePlant \/ SearchPlants

SpecSearch == Init /\ [][SearchNext]_vars

----------------------------------------------------------------------------
(* Claims about search_plants, checked under SpecSearch *)

\* query is a substring, letters compared without case, of the row's
\* identifier, of one of its common names, or of its description.
is_substring_match(p, query) ==
    LET q == lower(chars(query))
    IN  \/ contains(lower(chars(p.scientific_name)), q)
        \/ \E name \in Range(json_loads(p.common_names)) : contains(lower(chars(name)), q)
        \/ (p.description # None /\ contains(lower(p.description), q))

names_of(result) == {result[i].scientific_name : i \in 1..Len(result)}

\* C15: search_plants(q), without category and with a limit above the Store's
\* size, returns a record if and only if q is a case-insensitive substring of
\* its identifier, of one of its common names, or of its description.
C15_SearchIsSubstringMatch ==
    \A query \in Queries :
        \A result \in search_plants(db, query, None, DefaultSearchLimit) :
            names_of(result) =
                {p.scientific_name : p \in {r \in Range(db.plants) : is_substring_match(r, query)}}

\* The identifiers of SearchInputs in ascending order.
ascending == <<"Picea abies", "Rosa rugosa", "Tulipa gesneriana">>

rank(name) == CHOOSE i \in 1..Len(ascending) : ascending[i] = name

\* The n smallest identifiers of a set of identifiers.
smallest(names, n) ==
    {a \in names : Cardinality({b \in names : rank(b) < rank(a)}) < n}

\* C16: search_plants(q, category, limit) returns at most limit records, in
\* ascending order of identifier; when more than limit records match, they are
\* the limit matches with the smallest identifiers, whatever the order in which
\* the records were saved.
C16_SearchIsOrderedAndCapped ==
    \A query \in Queries, category \in {None, "fleurs", "arbres"}, limit \in Limits :
        \A result \in search_plants(db, query, category, limit) :
            /\ Len(result) <= limit
            /\ \A i, j \in 1..Len(result) :
                    i < j => rank(result[i].scientific_name) < rank(result[j].scientific_name)
            /\ \A all \in search_plants(db, query, category, Len(db.plants) + 1) :
                    names_of(result) = smallest(names_of(all), limit)

----------------------------------------------------------------------------
(* A Store that grows past the default limit of get_plants_by_category *)

MaxPlants == 101    \* records saved in one behaviour of SpecCatalog
MixedPlants == 2    \* the first records, whose tags vary

\* The identifier of the n-th record of the catalogue.
numbered(n) == "Plant " \o ToString(n)

TagChoices ==
    {<<[category |-> "fleurs", subcategory |-> "fleurs à bulbe"]>>,
     <<[category |-> "arbres", subcategory |-> "feuillus"]>>,
     <<[category |-> "fleurs", subcategory |-> "fleurs à bulbe"],
       [category |-> "arbres", subcategory |-> "conifères"]>>}

\* save_plant of one more record, from connect to commit. The first
\* MixedPlants records carry any of TagChoices, the others the fleurs tag.
AddPlant ==
    /\ Len(commits) < MaxPlants
    /\ \E tags \in (IF Len(commits) < MixedPlants THEN TagChoices
                    ELSE {<<[category |-> "fleurs", subcategory |-> "fleurs à bulbe"]>>}) :
        LET plant_data == [scientific_name |-> numbered(Len(commits) + 1),
                           common_names |-> EmptyList,
                           categories |-> tags]
        IN  /\ db' = save_plant(db, plant_data, clock)
            /\ commits' = Append(commits, plant_data)
    /\ observed' = [call |-> "none", key |-> None, rows |-> <<>>]
    /\ UNCHANGED <<lock, tx, pc, arg, plant_id, idx, calls, clock, collectVars, batchVars>>

\* get_plants_by_category(category), the limit left at its default.
ListCategory ==
    /\ \E category \in Categories :
         \E rows \in by_category_rows(db, category, 1, DefaultCategoryLimit) :
            observed' = [call |-> "get_plants_by_category", key |-> category,
                         rows |-> rows]
    /\ UNCHANGED <<db, lock, tx, pc, arg, plant_id, idx, calls, commits,
                   clock, collectVars, batchVars>>

CatalogNext == AddPlant \/ ListCategory

SpecCatalog == Init /\ [][CatalogNext]_vars

\* The identifiers saved with a tag of category c.
carriers(c) == {name_of(r) : r \in {x \in Range(commits) : c \in categories_of(x)}}

listed == {observed.rows[i].p.scientific_name : i \in 1..Len(observed.rows)}

\* C17, as stated: get_plants_by_category(c) returns every record of the Store
\* that carries a tag of category c and no other record, whatever the size of
\* the Store.
C17_ByCategoryReturnsAll ==
    observed.call = "get_plants_by_category" => listed = carriers(observed.key)

\* C17, amended: get_plants_by_category(c) returns only records that carry a
\* tag of category c, each once; all of them while there are at most limit
\* (100 by default) of them, and limit of them otherwise.
C17_ByCategoryReturnsUpToLimit ==
    observed.call = "get_plants_by_category" =>
        /\ listed \subseteq carriers(observed.key)
        /\ Cardinality(listed) = Len(observed.rows)
        /\ Len(observed.rows) = Min(Cardinality(carriers(observed.key)), DefaultCategoryLimit)

\* Witness of C17: a listing of 100 records from a Store in which 101 carry
\* the category.
C17_Witness ==
    /\ observed.call = "get_plants_by_category"
    /\ Cardinality(carriers(observed.key)) > DefaultCategoryLimit
    /\ Len(observed.rows) = DefaultCategoryLimit

----------------------------------------------------------------------------
(* generate_search_index, plants_web_interface.py lines 179-248 *)

\* Concatenation of a sequence of sequences.
RECURSIVE flatten(_)
flatten(ss) == IF ss = <<>> THEN <<>> ELSE Head(ss) \o flatten(Tail(ss))

\* WHERE scientific_name != 'Test Plant', in table order.
indexed_plants(d) == SelectSeq(d.plants, LAMBDA p : p.scientific_name # "Test Plant")

\* A variant of index_add in which a key holds the last id only.
index_overwrite(index, key, id) == Put(index, key, <<id>>)

\* if name not in search_index[...]: search_index[...][name] = []
\* search_index[...][name].append(row[0])
index_add(index, key, id) ==
    IF key \in DOMAIN index
    THEN [index EXCEPT ![key] = Append(@, id)]
    ELSE Put(index, key, <<id>>)

\* One of the four loops over cursor.fetchall(): rows of (id, text), the key
\* being text.lower().
RECURSIVE build_index(_, _)
build_index(index, rows) ==
    IF rows = <<>> THEN index
    ELSE build_index(index_add(index, lower(chars(Head(rows).text)), Head(rows).id),
                     Tail(rows))

\* SELECT id, scientific_name FROM plants WHERE ...
scientific_name_rows(d) ==
    [i \in 1..Len(indexed_plants(d)) |->
        [id |-> indexed_plants(d)[i].id, text |-> indexed_plants(d)[i].scientific_name]]

\* A variant of common_name_rows that reads '$[0]' only.
first_common_name_rows(d) ==
    flatten([i \in 1..Len(indexed_plants(d)) |->
        LET p == indexed_plants(d)[i]
            names == json_loads(p.common_names)
        IN  IF names = <<>> THEN <<>> ELSE <<[id |-> p.id, text |-> names[1]]>>])

\* SELECT p.id, json_extract(p.common_names, '$[' || json_each.key || ']')
\* FROM plants p, json_each(p.common_names) WHERE ...: one row per element.
common_name_rows(d) ==
    flatten([i \in 1..Len(indexed_plants(d)) |->
        LET p == indexed_plants(d)[i]
            names == json_loads(p.common_names)
        IN  [k \in 1..Len(names) |-> [id |-> p.id, text |-> names[k]]]])

\* SELECT id, family FROM plants WHERE family IS NOT NULL AND ...
family_rows(d) ==
    LET ps == SelectSeq(indexed_plants(d), LAMBDA p : p.family # None)
    IN  [i \in 1..Len(ps) |-> [id |-> ps[i].id, text |-> ps[i].family]]

\* SELECT p.id, pc.category FROM plants p JOIN plant_categories pc ON p.id =
\* pc.plant_id WHERE ...
category_rows(d) ==
    flatten([i \in 1..Len(indexed_plants(d)) |->
        LET p == indexed_plants(d)[i]
            pcs == SelectSeq(d.plant_categories, LAMBDA r : r.plant_id = p.id)
        IN  [k \in 1..Len(pcs) |-> [id |-> p.id, text |-> pcs[k].category]]])

\* The search_index dict generate_search_index returns; `if row[1]` skips the
\* empty common names.
generate_search_index(d) ==
    [scientific_names |-> build_index(EmptyDict, scientific_name_rows(d)),
     common_names |-> build_index(EmptyDict,
                        SelectSeq(common_name_rows(d), LAMBDA r : truthy(r.text))),
     families |-> build_index(EmptyDict, family_rows(d)),
     categories |-> build_index(EmptyDict, category_rows(d))]

----------------------------------------------------------------------------
(* A Store that is filled and indexed *)

\* A version of "Rosa rugosa" with two names that differ in case only, an
\* empty name, and two tags of one category.
RosaCase ==
    [scientific_name |-> "Rosa rugosa",
     common_names |-> <<"Rose", "ROSE", "", "Rosier">>,
     family |-> "Rosaceae",
     categories |-> <<[category |-> "arbres", subcategory |-> "feuillus"],
                      [category |-> "arbres", subcategory |-> "conifères"]>>]

\* "Rosa rugosa" spelled in capitals.
RosaUpper ==
    [scientific_name |-> "ROSA RUGOSA",
     common_names |-> <<"Rose">>,
     family |-> "Rosaceae",
     categories |-> <<[category |-> "fleurs", subcategory |-> "fleurs à bulbe"]>>]

IndexInputs == {TestPlant, RosaV1, RosaV2, RosaCase, RosaUpper, Tulipa, Picea}

\* save_plant from connect to commit, no other writer being active.
StorePlant ==
    /\ Len(commits) < MaxRecords
    /\ \E plant_data \in IndexInputs :
        /\ db' = save_plant(db, plant_data, clock)
        /\ commits' = Append(commits, plant_data)
    /\ observed' = [call |-> "none", key |-> None, rows |-> <<>>]
    /\ UNCHANGED <<lock, tx, pc, arg, plant_id, idx, calls, clock, collectVars, batchVars>>

\* PlantsWebInterface.generate_search_index on the Store as it is.
GenerateSearchIndex ==
    /\ observed' = [call |-> "generate_search_index", key |-> None, rows |-> <<>>,
                    index |-> generate_search_index(db)]
    /\ UNCHANGED <<db, lock, tx, pc, arg, plant_id, idx, calls, commits,
                   clock, collectVars, batchVars>>

\* get_stats, lines 235-260: COUNT(*) of plants, COUNT(DISTINCT plant_id) of
\* plant_categories per category, COUNT(*) of plant_weather_data; none of the
\* three SELECTs joins another table.
get_stats(d) ==
    LET cats == {d.plant_categories[i].category : i \in 1..Len(d.plant_categories)}
        counted(c) == Cardinality({d.plant_categories[i].plant_id :
                            i \in {j \in 1..Len(d.plant_categories) :
                                        d.plant_categories[j].category = c}})
        keys == {"total_plants", "plants_with_weather_data"}
                    \cup {"category_" \o c : c \in cats}
    IN  [k \in keys |->
            IF k = "total_plants" THEN Len(d.plants)
            ELSE IF k = "plants_with_weather_data" THEN Len(d.plant_weather_data)
            ELSE counted(CHOOSE c \in cats : k = "category_" \o c)]

\* PlantsDatabase.get_stats on the Store as it is.
GetStats ==
    /\ observed' = [call |-> "get_stats", key |-> None, rows |-> <<get_stats(db)>>]
    /\ UNCHANGED <<db, lock, tx, pc, arg, plant_id, idx, calls, commits,
                   clock, collectVars, batchVars>>

IndexNext == StorePlant \/ GenerateSearchIndex \/ GetStats

SpecIndex == Init /\ [][IndexNext]_vars

----------------------------------------------------------------------------
(* Claims about the search index, checked under SpecIndex *)

index_built == observed.call = "generate_search_index"

\* The keys of one of the four indices under which the id occurs.
keys_of(index, id) == {k \in DOMAIN index : id \in Range(index[k])}

non_empty_names(p) == SelectSeq(json_loads(p.common_names), LAMBDA n : n # "")

\* C18, as stated: a record with k non-empty common names appears under k
\* distinct keys of the common-name index.
C18_OneKeyPerCommonName ==
    index_built =>
        \A p \in Range(db.plants) :
            Cardinality(keys_of(observed.index.common_names, p.id)) = Len(non_empty_names(p))

\* C18, amended: a record other than 'Test Plant' appears under one key of the
\* common-name index per non-empty common name, names that differ in case only
\* sharing a key: under k keys when its k names differ beyond case. 'Test
\* Plant' appears under no key.
C18_OneKeyPerLoweredCommonName ==
    index_built =>
        \A p \in Range(db.plants) :
            Cardinality(keys_of(observed.index.common_names, p.id)) =
                IF p.scientific_name = "Test Plant" THEN 0
                ELSE Cardinality({lower(chars(n)) : n \in Range(non_empty_names(p))})

\* Witness of C18: the index was built over a record with two common names
\* that differ beyond case, found under two keys.
C18_Witness ==
    /\ index_built
    /\ \E p \in Range(db.plants) :
        /\ json_loads(p.common_names) = <<"Rose", "Rosier">>
        /\ Cardinality(keys_of(observed.index.common_names, p.id)) = 2

no_duplicates(list) == \A i, j \in 1..Len(list) : i # j => list[i] # list[j]

\* C19: every value of the four indices is a set: no record occurs twice under
\* one key, also when it holds two tags of one category or two common names
\* that differ in case only.
C19_IndexValuesAreSets ==
    index_built =>
        /\ \A k \in DOMAIN observed.index.scientific_names :
                no_duplicates(observed.index.scientific_names[k])
        /\ \A k \in DOMAIN observed.index.common_names :
                no_duplicates(observed.index.common_names[k])
        /\ \A k \in DOMAIN observed.index.families :
                no_duplicates(observed.index.families[k])
        /\ \A k \in DOMAIN observed.index.categories :
                no_duplicates(observed.index.categories[k])

\* The record is in the name index under its lower-cased identifier and in the
\* category index under each category of its latest save.
fully_indexed(p) ==
    /\ lower(chars(p.scientific_name)) \in keys_of(observed.index.scientific_names, p.id)
    /\ \A c \in categories_of(latest(p.scientific_name)) :
            lower(chars(c)) \in keys_of(observed.index.categories, p.id)

in_no_index(p) ==
    /\ keys_of(observed.index.scientific_names, p.id) = {}
    /\ keys_of(observed.index.common_names, p.id) = {}
    /\ keys_of(observed.index.families, p.id) = {}
    /\ keys_of(observed.index.categories, p.id) = {}

\* C20, as stated: the index is built by a full scan: every record of the
\* Store is in the name index under its lower-cased identifier and in the
\* category index under each category it holds.
C20_IndexCoversStore ==
    index_built => \A p \in Range(db.plants) : fully_indexed(p)

\* C20, amended: every record of the Store other than 'Test Plant' is in the
\* name index under its lower-cased identifier and in the category index under
\* each category it holds; 'Test Plant' is in none of the indices.
C20_IndexCoversAllButTestPlant ==
    index_built =>
        \A p \in Range(db.plants) :
            IF p.scientific_name = "Test Plant" THEN in_no_index(p) ELSE fully_indexed(p)

\* Witness of C20: the index was built over a Store of three records, 'Test
\* Plant' among them, two of the others sharing a category.
C20_Witness ==
    /\ index_built
    /\ Len(db.plants) = 3
    /\ \E p \in Range(db.plants) : p.scientific_name = "Test Plant"
    /\ \E k \in DOMAIN observed.index.categories :
            Cardinality(Range(observed.index.categories[k])) = 2

----------------------------------------------------------------------------
(* Claims about repeated aggregation, checked under SpecCollect *)

\* The Store after the returned record is saved now and the record of a second
\* aggregation is saved over it at time t.
saved_twice(second, t) == save_plant(save_plant(db, combined_data, clock), second, t)

\* C21: aggregating the identifier again, the sources answering as
\* before, yields a record identical in every field, the provenance map
\* included; saving it over the first leaves get_plant returning a record
\* equal to the first.
C21_ReaggregationIsIdentical ==
    returned_record =>
        \A t \in clock..MaxClock :
            LET second == collect_comprehensive_plant_data(plant_name, fetched, t)
            IN  /\ second = combined_data
                /\ \A g \in get_plant(saved_twice(second, t), plant_name) :
                        /\ same_fields(g, combined_data)
                        /\ Range(g.categories) = tags_of(combined_data)

----------------------------------------------------------------------------
(* Claims about the spelling of identifiers, checked under SpecIndex *)

\* The saved records whose identifier is name in some letter case, oldest
\* first.
committed_any_case(name) == SelectSeq(commits, LAMBDA r : same_name(name_of(r), name))

\* C22: lookup ignores letter case and identity keeps it: once "Rosa rugosa"
\* is saved in any spelling, get_plant("rosa rugosa") returns the record with
\* its identifier spelled as last saved, and saving another spelling replaces
\* the record instead of adding a second one.
C22_LookupIgnoresCase ==
    committed_any_case("rosa rugosa") # <<>> =>
        LET last == committed_any_case("rosa rugosa")[Len(committed_any_case("rosa rugosa"))]
        IN  /\ \A g \in get_plant(db, "rosa rugosa") :
                    g # NoneDict /\ g.scientific_name = name_of(last)
            /\ Cardinality({i \in 1..Len(db.plants) :
                    same_name(db.plants[i].scientific_name, "rosa rugosa")}) = 1

----------------------------------------------------------------------------
(* Claims about the tags of stored records, checked under SpecBatch *)

\* The plant_categories rows of one plants row, in table order.
tag_rows(d, p) == SelectSeq(d.plant_categories, LAMBDA c : c.plant_id = p.id)

\* C23: after any run of aggregations and saves, every row of plants has at
\* least one plant_categories row, no two of its rows carry the same
\* (category, subcategory) pair, and get_plant reports a non-empty list of
\* tags without repetition.
C23_EveryRecordIsTagged ==
    \A i \in 1..Len(db.plants) :
        LET p == db.plants[i]
            rows == tag_rows(db, p)
        IN  /\ rows # <<>>
            /\ \A a, b \in 1..Len(rows) :
                    (rows[a].category = rows[b].category
                        /\ rows[a].subcategory = rows[b].subcategory) => a = b
            /\ \A g \in get_plant(db, p.scientific_name) :
                    /\ g # NoneDict
                    /\ g.categories # <<>>
                    /\ Cardinality(Range(g.categories)) = Len(g.categories)

\* A name no rule matches was saved with the fallback tag, and "Rosa rugosa"
\* was saved twice, the second save replacing the first.
C23_Witness ==
    /\ \E i \in 1..Len(db.plants) :
            /\ db.plants[i].scientific_name = "Xyz abcdef"
            /\ \E c \in Range(tag_rows(db, db.plants[i])) : c.category = "divers"
    /\ Len(committed_for("Rosa rugosa")) = 2
    /\ \E i \in 1..Len(db.plants) : db.plants[i].scientific_name = "Rosa rugosa"

----------------------------------------------------------------------------
(* Claims about source failures, checked under SpecCollect *)

\* The sources whose try block has run when the call stands at step.
before(step) ==
    CASE step = "trefle" -> {}
      [] step = "wikipedia" -> {"trefle"}
      [] step = "plantnet" -> {"trefle", "wikipedia"}
      [] step = "openplantbook" -> {"trefle", "wikipedia", "plantnet"}
      [] OTHER -> Range(Sources)

\* The sources that returned a payload.
answered == {s \in DOMAIN fetched : fetched[s].kind = "payload"}

\* What the payload of an answering source leaves in the record.
contributed(s, cd) ==
    LET data == fetched[s].data
    IN  CASE s = "trefle" ->
                /\ cd["family"] = Get(data, "family", "")
                /\ cd["sources"][s].author = Get(data, "author", "")
          [] s = "wikipedia" ->
                /\ truthy(data.thumbnail) => data.thumbnail \in Range(cd["image_urls"])
                /\ cd["sources"][s].title = data.title
                /\ "trefle" \notin answered =>
                        cd["description"] = clean_description(data.description)
          [] s = "plantnet" ->
                /\ \A n \in Range(data.common_names) :
                        strip(chars(n)) # <<>> => n \in Range(cd["common_names"])
                /\ cd["sources"][s].family = data.family
                /\ "wikipedia" \notin answered =>
                        cd["description"] = clean_description(data.description)
          [] s = "openplantbook" ->
                /\ cd["weather_data"].temperature_min = data.temperature_min
                /\ cd["care_instructions"].watering_frequency = data.watering_frequency
                /\ cd["sources"][s].pid = data.pid

\* C24: whichever sources raise or return nothing, the call goes through the
\* four try blocks in the order Trefle, Wikipedia, PlantNet, OpenPlantBook and
\* returns; the record of a non-empty identifier holds what each answering
\* source contributed, and its 'sources' dict has exactly the answering sources
\* as keys.
C24_SourceFailuresAreNotFatal ==
    /\ cpc # "idle" => DOMAIN fetched = before(cpc)
    /\ (cpc = "done" /\ plant_name # "") =>
            /\ combined_data # NoneDict
            /\ DOMAIN combined_data["sources"] = answered
            /\ \A s \in answered : contributed(s, combined_data)
            /\ "openplantbook" \notin answered =>
                    combined_data["weather_data"] = EmptyDict

\* A returned record after Trefle raised, Wikipedia returned None and the two
\* last sources answered.
C24_Witness ==
    /\ returned_record
    /\ fetched["trefle"] = Raises
    /\ fetched["wikipedia"] = ReturnsNone
    /\ answered = {"plantnet", "openplantbook"}

----------------------------------------------------------------------------
(* Claims about interruption, checked under Spec *)

interrupted == {w \in Writers : pc[w] = "interrupted"}

\* C25: after a process was interrupted, before or inside save_plant, the
\* Store holds for every identifier what the last committed save_plant for it
\* wrote (row, tags and ranges), and nothing for an identifier no save_plant
\* committed: the interrupted call left its identifier wholly in the previous
\* state.
C25_InterruptionLeavesWholeRecords ==
    interrupted # {} =>
        \A name \in Identifiers :
            IF committed_for(name) = <<>>
            THEN get_plant_rows(db, name) = {}
            ELSE /\ get_plant_rows(db, name) # {}
                 /\ \A row \in get_plant_rows(db, name) :
                        /\ same_fields(_row_to_dict(row), latest(name))
                        /\ tags_in(row) = tags_of(latest(name))
                        /\ ranges_in(row) = ranges_of(latest(name))

\* A save_plant replacing a committed record was interrupted after its INSERT
\* into plants and before its first tag.
C25_Witness ==
    \E w \in interrupted :
        /\ committed_for(name_of(arg[w])) # <<>>
        /\ latest(name_of(arg[w])) # arg[w]
        /\ has_categories(arg[w])
        /\ \E i \in 1..Len(tx[w].plants) : tx[w].plants[i].id = plant_id[w]
        /\ \A c \in Range(tx[w].plant_categories) : c.plant_id # plant_id[w]

----------------------------------------------------------------------------
(* Claims about the keyword rules, checked under SpecCollect *)

\* The whitespace-separated tokens of a text.
RECURSIVE tokens(_, _)
tokens(cs, word) ==
    IF cs = <<>> THEN (IF word = <<>> THEN {} ELSE {word})
    ELSE IF Head(cs) = " "
         THEN (IF word = <<>> THEN {} ELSE {word}) \cup tokens(Tail(cs), <<>>)
         ELSE tokens(Tail(cs), Append(word, Head(cs)))

\* One of the rule's keywords is a token of the lower-cased identifier.
token_fires(rule, name) ==
    \E i \in 1..Len(rule.keywords) :
        chars(rule.keywords[i]) \in tokens(lower(chars(name)), <<>>)

tag_of(rule) == [category |-> rule.category, subcategory |-> rule.subcategory]

\* C26: the categories of a returned record hold the tag of a rule if and only
\* if one of the rule's keywords equals a whitespace-separated token of the
\* lower-cased identifier, and the tags stand in the order of the rule table.
C26_RulesFireOnTokens ==
    returned_record =>
        /\ \A k \in 1..Len(CategoryRules) :
                tag_of(CategoryRules[k]) \in Range(combined_data["categories"])
                    <=> token_fires(CategoryRules[k], plant_name)
        /\ \A i, j \in 1..Len(combined_data["categories"]) :
                i < j =>
                    \A a, b \in 1..Len(CategoryRules) :
                        (tag_of(CategoryRules[a]) = combined_data["categories"][i]
                            /\ tag_of(CategoryRules[b]) = combined_data["categories"][j])
                        => a < b

----------------------------------------------------------------------------
(* Claims about the run summary, checked under SpecBatch *)

\* C27: when process_plant_list has returned, total_processed is the length of
\* the plant list and equals successful_collects + failed_collects,
\* saved_to_db is at most successful_collects, stats['errors'] has
\* failed_collects entries, and every identifier of the list that is not in
\* the Store has an entry there.
C27_SummaryAccountsForEveryIdentifier ==
    bpc = "done" =>
        /\ stats.total_processed = Len(plant_list)
        /\ stats.total_processed = stats.successful_collects + stats.failed_collects
        /\ stats.saved_to_db <= stats.successful_collects
        /\ Len(stats.errors) = stats.failed_collects
        /\ \A k \in 1..Len(plant_list) :
                plant_list[k] \notin identifiers_in(db) =>
                    \E e \in 1..Len(stats.errors) : stats.errors[e].plant = plant_list[k]

----------------------------------------------------------------------------
(* Claims about get_stats, checked under SpecIndex *)

\* The rows of plants that carry a tag of the category.
carrying(d, c) ==
    {i \in 1..Len(d.plants) :
        \E t \in Range(d.plant_categories) :
            t.plant_id = d.plants[i].id /\ t.category = c}

\* C28: what get_stats reports refers to the rows of plants only: for each
\* category, 'category_<c>' is the number of rows of plants that carry a tag of
\* the category, and plants_with_weather_data is at most total_plants.
C28_StatsCountStoredRecords ==
    observed.call = "get_stats" =>
        LET s == observed.rows[1]
        IN  /\ s["total_plants"] = Len(db.plants)
            /\ \A c \in Categories :
                    Get(s, "category_" \o c, 0) = Cardinality(carrying(db, c))
            /\ s["plants_with_weather_data"] <= s["total_plants"]

====
